---- MODULE Spec2Model ----
(***************************************************************************)
(* A model of the tray monitor of claude_monitor.tray: the threshold       *)
(* classifier of icons.py, the status computation and the status file of   *)
(* status_generator.py, the settings record, settings file and settings   *)
(* dialog of settings.py, settings_dialog.py and __main__.py,              *)
(* and the tray application of app.py with its timer, its handlers and    *)
(* its event loop.                                                         *)
(*                                                                         *)
(* Ratios and thresholds are Python floats in the source.  They are kept   *)
(* here as integers in hundredths (0.70 is 70); the spin boxes of the      *)
(* dialog hold exactly these integers and divide them by 100.0.  Money is  *)
(* kept in cents.  An Optional value is a sequence of length 0 or 1.       *)
(***************************************************************************)
EXTENDS Integers, Sequences, FiniteSets, TLC

VARIABLES
    \* icons.py, TrayIconManager and the icon it was last asked for
    warning_threshold, critical_threshold, usage_ratio, icon_state,
    \* status_generator.py, one call of generate_status
    plan, usage, token_lookup, plan_lookup, status,
    \* datetime.now(), read by every record that carries a timestamp
    clock,
    \* the directory ~/.claude-monitor: the files by path, their contents,
    \* the process running write_status_file, the calls of read_status_file
    fs, inodes, writer, readers,
    \* settings.py and __main__.py: the settings file, the temporary file that
    \* save writes beside it, the cached settings of each TraySettingsManager,
    \* the command line, the position of main(), and the last call made on a
    \* manager or by the dialog
    settings_file, settings_tmp, _settings, args, main_pc, last_call,
    \* app.py, TrayApplication: self._settings, self._status, self._timer,
    \* and the number of times the settings dialog was accepted
    app_settings, _status, _timer, accepts,
    \* the tooltip of the tray icon and self._stats_window
    tooltip, _stats_window,
    \* the thread of the tray: the calls it is in, from app.exec() upwards,
    \* and the events that have arrived and are not yet delivered
    stack, pending

vars == <<warning_threshold, critical_threshold, usage_ratio, icon_state,
          plan, usage, token_lookup, plan_lookup, status, clock,
          fs, inodes, writer, readers,
          settings_file, settings_tmp, _settings, args, main_pc, last_call,
          app_settings, _status, _timer, accepts, tooltip, _stats_window,
          stack, pending>>

None == <<>>
Some(x) == <<x>>
Val(o) == o[1]

(***************************************************************************)
(* Bounds of the model.                                                    *)
(***************************************************************************)
MaxRatio == 6
MaxBlocks == 2
MaxWrites == 2
MaxChunks == 2
MaxReaders == 2
MaxAccepts == 1
MaxRefreshes == 2


(***************************************************************************)
(* The parts of the state, and each part as it is before it is used.       *)
(***************************************************************************)
IconVars == <<warning_threshold, critical_threshold, usage_ratio, icon_state>>
StatusVars == <<plan, usage, token_lookup, plan_lookup, status, clock>>

StoreVars == <<fs, inodes, writer, readers>>
LoopVars == <<stack, pending>>
SettingsVars == <<settings_file, settings_tmp, _settings, args, main_pc, last_call,
                  app_settings, _status, _timer, accepts, tooltip, _stats_window,
                  LoopVars>>

STATUS_FILE == "tray_status.json"

Paths == {STATUS_FILE, "tray_status.tmp"}

Readers == 1..MaxReaders


\* TrayIconManager.__init__: the thresholds are stored as given; _setup_tray
\* shows the LOADING icon.
IconIdle ==
    /\ warning_threshold = 70
    /\ critical_threshold = 90
    /\ usage_ratio = None
    /\ icon_state = "loading"

StatusIdle ==
    /\ plan = "max20"
    /\ usage = None
    /\ token_lookup = None
    /\ plan_lookup = None
    /\ status = None
    /\ clock = 0

WriterIdle == [pc |-> "idle", written |-> 0, result |-> None]
\* A call of read_status_file: where it is, the file it has open, the records
\* the status file held while it ran, what it met on its way, what it returned.
NothingSeen == [outcome |-> "nothing"]
ReaderIdle ==
    [pc |-> "idle", fd |-> None, may_see |-> {}, saw |-> NothingSeen, result |-> None]

StoreIdle ==
    /\ fs = [p \in Paths |-> None]
    /\ inodes = <<>>
    /\ writer = WriterIdle
    /\ readers = [r \in Readers |-> ReaderIdle]

\* QTimer(self): not running.  remaining is the time to the next timeout;
\* waited is the time since the timer was armed, and cut the part of the
\* interval before that had passed when setInterval armed it again (both are
\* kept for the properties only).
QTimer == [active |-> FALSE, interval |-> 0, remaining |-> 0, waited |-> 0, cut |-> 0]

\* main() has two managers in its lifetime: its own, and the one that
\* TrayApplication.__init__ makes.
Managers == {"main", "app"}

NoArgs == [plan |-> None, refresh_rate |-> None]

SettingsIdle ==
    /\ settings_file = None
    /\ settings_tmp = None
    /\ _settings = [m \in Managers |-> None]
    /\ args = NoArgs
    /\ main_pc = "start"
    /\ last_call = [op |-> "none"]
    /\ app_settings = None
    /\ _status = None
    /\ _timer = QTimer
    /\ accepts = 0
    /\ tooltip = None
    /\ _stats_window = None
    /\ stack = <<>>
    /\ pending = {}

(***************************************************************************)
(* icons.py                                                                *)
(***************************************************************************)
IconState == {"normal", "warning", "critical", "loading", "error"}

\* The classifier with the critical comparison made strict: a ratio equal to
\* the critical threshold would fall through to WARNING.
StateForRatioStrict(ratio, warning, critical) ==
    IF ratio < 0 THEN "error"
    ELSE IF ratio > critical THEN "critical"
    ELSE IF ratio >= warning THEN "warning"
    ELSE "normal"

_get_state_for_ratio(ratio, warning, critical) ==
    IF ratio < 0 THEN "error"
    ELSE IF ratio >= critical THEN "critical"
    ELSE IF ratio >= warning THEN "warning"
    ELSE "normal"

Ratios == (0 - 2) .. (MaxRatio + 1)
Thresholds == (0 - 1) .. MaxRatio

InitIconManager ==
    /\ warning_threshold \in Thresholds
    /\ critical_threshold \in Thresholds
    /\ usage_ratio = None
    /\ icon_state = "loading"

get_icon_for_usage(r) ==
    /\ usage_ratio' = Some(r)
    /\ icon_state' = _get_state_for_ratio(r, warning_threshold, critical_threshold)
    /\ UNCHANGED <<warning_threshold, critical_threshold>>

GetIconForUsage ==
    /\ \E r \in Ratios : get_icon_for_usage(r)
    /\ UNCHANGED StatusVars
    /\ UNCHANGED <<StoreVars, SettingsVars>>

InitIcon == InitIconManager /\ StatusIdle /\ StoreIdle /\ SettingsIdle
NextIcon == GetIconForUsage
SpecIcon == InitIcon /\ [][NextIcon]_vars

\* C1: with critical_threshold > warning_threshold, the state returned for a
\* ratio r is ERROR when r < 0, CRITICAL when 0 <= r and r >= critical,
\* WARNING when 0 <= r, warning <= r < critical, NORMAL when 0 <= r < warning;
\* it is one of these four and never LOADING.
C1_Classification ==
    (usage_ratio # None /\ critical_threshold > warning_threshold) =>
        LET r == Val(usage_ratio) IN
        /\ icon_state \in {"normal", "warning", "critical", "error"}
        /\ icon_state # "loading"
        /\ (r < 0) <=> (icon_state = "error")
        /\ (r >= 0 /\ r >= critical_threshold) <=> (icon_state = "critical")
        /\ (r >= 0 /\ r >= warning_threshold /\ r < critical_threshold)
               <=> (icon_state = "warning")
        /\ (r >= 0 /\ r < warning_threshold) <=> (icon_state = "normal")

\* A ratio exactly at the critical threshold has been classified CRITICAL.
C1_Witness ==
    /\ usage_ratio # None
    /\ critical_threshold > warning_threshold
    /\ warning_threshold > 0
    /\ Val(usage_ratio) = critical_threshold
    /\ icon_state = "critical"

(***************************************************************************)
(* status_generator.py: generate_status                                    *)
(*                                                                         *)
(* analyze_usage and Plans are collaborators outside the tray package; a   *)
(* call of one of them is an input: it raises, or it returns a value.      *)
(***************************************************************************)
Raise(msg) == [kind |-> "raise", msg |-> msg]

TokenCounts(i, o, c) ==
    [inputTokens |-> i, outputTokens |-> o, cacheCreationTokens |-> c]

\* What a block may carry: 500 tokens with and without cache tokens, 5000
\* tokens with a cost and a message count above every limit, and a block
\* whose tokenCounts is null.
BlockShapes ==
    { [tokenCounts |-> Some(TokenCounts(400, 100, 0)), costUSD |-> 1250,
       sentMessagesCount |-> 10],
      [tokenCounts |-> Some(TokenCounts(400, 100, 7)), costUSD |-> 1250,
       sentMessagesCount |-> 10],
      [tokenCounts |-> Some(TokenCounts(400, 4600, 0)), costUSD |-> 20000,
       sentMessagesCount |-> 3000],
      [tokenCounts |-> None, costUSD |-> 0, sentMessagesCount |-> 0] }

\* The ends of the time windows of the blocks, the earlier one first.
EndTimes == <<"2026-11-03T15:00:00", "2026-11-03T20:00:00">>

Blocks ==
    { [isActive |-> a, tokenCounts |-> s.tokenCounts, costUSD |-> s.costUSD,
       sentMessagesCount |-> s.sentMessagesCount,
       endTime |-> EndTimes[e]] :
      a \in BOOLEAN, s \in BlockShapes, e \in 1..Len(EndTimes) }

BlockLists == UNION { [1..n -> Blocks] : n \in 0..MaxBlocks }

\* analyze_usage(hours_back=192, use_cache=False): raises, returns nothing
\* (None or an empty dict), or returns the blocks and the aggregate counters.
UsageOutcomes ==
    { Raise("usage source unavailable"), [kind |-> "empty"] }
    \cup { [kind |-> "data", blocks |-> b, entries_count |-> 3 * Len(b),
            total_tokens |-> t * Len(b), total_cost |-> 4200 * Len(b)] :
           b \in BlockLists, t \in {6000, 123456} }

\* Plans.get_token_limit(plan, blocks)
TokenLookups ==
    { Raise("token limit lookup failed") }
    \cup { [kind |-> "value", value |-> v] : v \in {0 - 1, 0, 1000, 44000} }

\* Plans.get_plan_by_name(plan): raises, knows no such plan, or a plan config
PlanLookups ==
    { Raise("plan lookup failed"), [kind |-> "none"],
      [kind |-> "config", cost_limit |-> 1800, message_limit |-> 250],
      [kind |-> "config", cost_limit |-> 0, message_limit |-> 0] }

PlanNames == {"max20", "custom"}

FallbackCostLimit == 14000
FallbackMessageLimit == 2000

\* int(value / limit * 100): the quotient truncated towards zero.  (The
\* float product can fall just below a whole number that the exact quotient
\* reaches, as for 29 / 100 * 100; no value of this model is such a case.)
IntPct(value, limit) ==
    IF value >= 0 THEN (value * 100) \div limit
    ELSE 0 - (((0 - value) * 100) \div limit)

Pct(value, limit) == IF limit > 0 THEN IntPct(value, limit) ELSE 0

\* The percentage stored without the upper clamp.
Unclamped(pct) == pct

\* min(100, pct)
Clamp(pct) == IF pct < 100 THEN pct ELSE 100

\* The handler of the except clause letting the exception out.
Reraise(msg, now) == [raised |-> msg]

\* except Exception as e: return {"error": str(e), "timestamp": ...}
OnException(msg, now) == [error |-> msg, timestamp |-> now]

\* The loop over the blocks and the fallback to blocks[0].
CurrentBlock(blocks) ==
    LET active == { i \in 1..Len(blocks) : blocks[i].isActive } IN
    IF active # {}
    THEN Some(blocks[CHOOSE i \in active : \A j \in active : i <= j])
    ELSE IF Len(blocks) > 0 THEN Some(blocks[1])
    ELSE None

\* The tokens of a block counted with its cache tokens.
SessionTokensWithCache(tc) ==
    tc.inputTokens + tc.outputTokens + tc.cacheCreationTokens

\* line 49: tc.get("inputTokens", 0) + tc.get("outputTokens", 0)
SessionTokens(tc) == tc.inputTokens + tc.outputTokens

AttributeErrorMsg == "'NoneType' object has no attribute 'get'"

generate_status(p, data, tl, pc, now) ==
    IF data.kind = "raise" THEN OnException(data.msg, now)
    ELSE IF data.kind = "empty"
    THEN [error |-> "No data available", timestamp |-> now]
    ELSE
    LET blocks == data.blocks
        current_block == CurrentBlock(blocks)
    IN
    IF tl.kind = "raise" THEN OnException(tl.msg, now)
    ELSE IF current_block # None /\ Val(current_block).tokenCounts = None
    THEN OnException(AttributeErrorMsg, now)
    ELSE IF pc.kind = "raise" THEN OnException(pc.msg, now)
    ELSE
    LET token_limit == tl.value
        tc == Val(Val(current_block).tokenCounts)
        session_tokens ==
            IF current_block # None THEN SessionTokens(tc) ELSE 0
        session_cost ==
            IF current_block # None THEN Val(current_block).costUSD ELSE 0
        session_messages ==
            IF current_block # None THEN Val(current_block).sentMessagesCount ELSE 0
        reset_time ==
            IF current_block # None THEN Val(current_block).endTime ELSE ""
        session_pct == Pct(session_tokens, token_limit)
        cost_limit == IF pc.kind = "config" THEN pc.cost_limit ELSE FallbackCostLimit
        message_limit ==
            IF pc.kind = "config" THEN pc.message_limit ELSE FallbackMessageLimit
        cost_pct == Pct(session_cost, cost_limit)
        message_pct == Pct(session_messages, message_limit)
    IN
    [ timestamp |-> now,
      plan |-> p,
      token_limit |-> token_limit,
      cost_limit |-> cost_limit,
      message_limit |-> message_limit,
      session |->
        [ tokens |-> session_tokens,
          tokens_pct |-> Clamp(session_pct),
          cost |-> session_cost,
          cost_pct |-> Clamp(cost_pct),
          messages |-> session_messages,
          messages_pct |-> Clamp(message_pct),
          reset_time |-> reset_time,
          is_active |->
            IF current_block # None THEN Val(current_block).isActive ELSE FALSE ],
      totals |->
        [ entries |-> data.entries_count,
          blocks |-> Len(blocks),
          total_tokens |-> data.total_tokens,
          total_cost |-> data.total_cost ] ]

\* One call of generate_status: the plan argument and what the collaborators
\* will answer are drawn when the call is made.
StatusCall ==
    /\ plan \in PlanNames
    /\ usage \in { Some(u) : u \in UsageOutcomes }
    /\ token_lookup \in { Some(t) : t \in TokenLookups }
    /\ plan_lookup \in { Some(c) : c \in PlanLookups }
    /\ status = None
    /\ clock = 0

GenerateStatus ==
    /\ status = None
    /\ status' = Some(generate_status(plan, Val(usage), Val(token_lookup),
                                      Val(plan_lookup), clock))
    /\ UNCHANGED <<plan, usage, token_lookup, plan_lookup, clock>>
    /\ UNCHANGED <<IconVars, SettingsVars>>
    /\ UNCHANGED <<StoreVars, SettingsVars>>

NextStatus == GenerateStatus
InitStatus == StatusCall /\ IconIdle /\ StoreIdle /\ SettingsIdle
SpecStatus == InitStatus /\ [][NextStatus]_vars

IsError(rec) == "error" \in DOMAIN rec

\* C2: in every record without an error field, tokens_pct, cost_pct and
\* messages_pct are integers between 0 and 100.
C2_PctInRange ==
    (status # None /\ ~IsError(Val(status))) =>
        LET s == Val(status).session IN
        /\ s.tokens_pct \in 0..100
        /\ s.cost_pct \in 0..100
        /\ s.messages_pct \in 0..100

\* token_limit = 1000 and 5000 session tokens gave tokens_pct = 100.
C2_Witness ==
    /\ status # None
    /\ ~IsError(Val(status))
    /\ Val(status).token_limit = 1000
    /\ Val(status).session.tokens = 5000
    /\ Val(status).session.tokens_pct = 100

\* C14: in a record without an error field made from a non-empty collection,
\* session.tokens is inputTokens + outputTokens of the selected block, whatever
\* its cache tokens are, and tokens_pct is the clamped percentage of that sum
\* against token_limit; the total_tokens of the usage source is in
\* totals.total_tokens and nowhere else.
C14_CacheTokensExcluded ==
    ( /\ status # None
      /\ ~IsError(Val(status))
      /\ Val(usage).kind = "data"
      /\ Val(usage).blocks # <<>> ) =>
        LET rec == Val(status)
            tc == Val(Val(CurrentBlock(Val(usage).blocks)).tokenCounts)
        IN /\ rec.session.tokens = tc.inputTokens + tc.outputTokens
           /\ rec.session.tokens_pct
                  = Clamp(Pct(tc.inputTokens + tc.outputTokens, rec.token_limit))
           /\ rec.totals.total_tokens = Val(usage).total_tokens

\* A block with 400 input, 100 output and 7 cache tokens was selected while
\* the source reported 123456 tokens in total for one block: session.tokens
\* is 500 and tokens_pct is 50 of a limit of 1000.
C14_Witness ==
    /\ status # None
    /\ ~IsError(Val(status))
    /\ Val(usage).kind = "data"
    /\ Len(Val(usage).blocks) = 1
    /\ Val(Val(usage).blocks[1].tokenCounts).cacheCreationTokens = 7
    /\ Val(usage).total_tokens = 123456
    /\ Val(status).session.tokens = 500
    /\ Val(status).token_limit = 1000
    /\ Val(status).session.tokens_pct = 50
    /\ Val(status).totals.total_tokens = 123456

\* The place of an end time among the end times, and the latest end time of
\* a collection of blocks.
EndTimeOrder(t) == CHOOSE i \in 1..Len(EndTimes) : EndTimes[i] = t

LatestEndTime(blocks) ==
    LET ends == { blocks[i].endTime : i \in 1..Len(blocks) }
    IN CHOOSE t \in ends : \A u \in ends : EndTimeOrder(u) <= EndTimeOrder(t)

\* C19: a record without an error field made from a non-empty collection is
\* made from a block flagged active when there is one, and otherwise from the
\* block with the latest time window, wherever that block stands in the
\* collection.
C19_FallbackIsMostRecent ==
    ( /\ status # None
      /\ ~IsError(Val(status))
      /\ Val(usage).kind = "data"
      /\ Val(usage).blocks # <<>> ) =>
        LET blocks == Val(usage).blocks
            rec == Val(status)
        IN IF \E i \in 1..Len(blocks) : blocks[i].isActive
           THEN /\ rec.session.is_active
                /\ \E i \in 1..Len(blocks) :
                      /\ blocks[i].isActive
                      /\ rec.session.reset_time = blocks[i].endTime
                      /\ rec.session.cost = blocks[i].costUSD
           ELSE /\ ~rec.session.is_active
                /\ rec.session.reset_time = LatestEndTime(blocks)

\* round(value / limit * 100): the nearest integer, a tie going to the even
\* one.
RoundPct(value, limit) ==
    LET q == (value * 100) \div limit
        r == (value * 100) % limit
    IN IF 2 * r > limit THEN q + 1
       ELSE IF 2 * r < limit THEN q
       ELSE IF q % 2 = 0 THEN q ELSE q + 1

\* The percentage of the claim for a value and a limit, as the record holds
\* it after the clamp.
ClaimedPct(value, limit) ==
    IF limit > 0 THEN Clamp(RoundPct(value, limit)) ELSE 0

\* C20: in a record without an error field made from a non-empty collection,
\* each percentage is, before the clamp, round(v / limit * 100) when its limit
\* is positive and 0 when it is not, and session.tokens, session.cost and
\* session.messages are the values v of the selected block themselves.
C20_PctIsRounded ==
    ( /\ status # None
      /\ ~IsError(Val(status))
      /\ Val(usage).kind = "data"
      /\ Val(usage).blocks # <<>> ) =>
        LET rec == Val(status)
            block == Val(CurrentBlock(Val(usage).blocks))
            tc == Val(block.tokenCounts)
        IN /\ rec.session.tokens = tc.inputTokens + tc.outputTokens
           /\ rec.session.cost = block.costUSD
           /\ rec.session.messages = block.sentMessagesCount
           /\ rec.session.tokens_pct = ClaimedPct(rec.session.tokens, rec.token_limit)
           /\ rec.session.cost_pct = ClaimedPct(rec.session.cost, rec.cost_limit)
           /\ rec.session.messages_pct
                  = ClaimedPct(rec.session.messages, rec.message_limit)

\* C9: when the usage source returns an empty collection of blocks, the
\* record returned has its error field set, and its session values are zero
\* or absent.
C9_EmptyBlocksGiveError ==
    (status # None /\ Val(usage).kind = "data" /\ Val(usage).blocks = <<>>) =>
        LET rec == Val(status) IN
        /\ IsError(rec)
        /\ "session" \in DOMAIN rec =>
               /\ rec.session.tokens = 0
               /\ rec.session.cost = 0
               /\ rec.session.messages = 0

\* The messages of the failures that occur during the call: of the usage
\* source, of the two plan lookups, and of the computation on the block.
FailureMessages ==
    LET u == Val(usage) IN
    IF u.kind = "raise" THEN {u.msg}
    ELSE IF u.kind = "empty" THEN {}
    ELSE (IF Val(token_lookup).kind = "raise" THEN {Val(token_lookup).msg} ELSE {})
         \cup (IF Val(plan_lookup).kind = "raise" THEN {Val(plan_lookup).msg} ELSE {})
         \cup (IF \E i \in 1..Len(u.blocks) :
                     /\ u.blocks[i].tokenCounts = None
                     /\ \/ u.blocks[i].isActive /\ \A j \in 1..(i-1) : ~u.blocks[j].isActive
                        \/ i = 1 /\ \A j \in 1..Len(u.blocks) : ~u.blocks[j].isActive
               THEN {AttributeErrorMsg} ELSE {})

\* C10: generate_status always returns a record; when the usage source, a
\* plan lookup or the computation fails, the record has an error field that
\* carries the message of a failure that occurred, and neither a session nor
\* a totals field.
C10_FailuresAbsorbed ==
    status # None =>
        LET rec == Val(status) IN
        /\ IsError(rec) \/ {"session", "totals"} \subseteq DOMAIN rec
        /\ FailureMessages # {} =>
               /\ IsError(rec)
               /\ rec.error \in FailureMessages
               /\ "session" \notin DOMAIN rec
               /\ "totals" \notin DOMAIN rec

\* The usage source and the token lookup answered, the plan-config lookup
\* raised, and the record carries that message.
C10_Witness ==
    /\ status # None
    /\ Val(usage).kind = "data"
    /\ Val(token_lookup).kind = "value"
    /\ Val(plan_lookup).kind = "raise"
    /\ IsError(Val(status))
    /\ Val(status).error = "plan lookup failed"

(***************************************************************************)
(* status_generator.py: write_status_file and read_status_file             *)
(*                                                                         *)
(* A path names an inode or nothing; an inode holds the chunks written to  *)
(* it so far.  open(path, "w") truncates the inode the path names or makes *)
(* a new one; replace renames; an open file keeps its inode.               *)
(***************************************************************************)
\* The writer serializing straight into the status file.
StatusFileItself == STATUS_FILE

\* STATUS_FILE.with_suffix(".tmp")
temp_file == "tray_status.tmp"

\* The JSON values that json.dump writes for the values of a status record:
\* str as a string, int and float as a number in its shortest exact notation,
\* True and False as the literals, dict as an object.
JsonString(v) == [json |-> "string", chars |-> v]

\* Numbers written with their last digit dropped.
JsonNumberShortened(v) == [json |-> "number", repr |-> (v \div 10) * 10]

JsonNumber(v) == [json |-> "number", repr |-> v]
JsonBool(v) == [json |-> IF v THEN "true" ELSE "false"]
JsonObject(m) == [json |-> "object", members |-> m]

\* The JSON value of a record of generate_status, member by member.
json_encode(rec) ==
    IF "error" \in DOMAIN rec
    THEN JsonObject([ error |-> JsonString(rec.error),
                      timestamp |-> JsonString(rec.timestamp) ])
    ELSE JsonObject(
        [ timestamp |-> JsonString(rec.timestamp),
          plan |-> JsonString(rec.plan),
          token_limit |-> JsonNumber(rec.token_limit),
          cost_limit |-> JsonNumber(rec.cost_limit),
          message_limit |-> JsonNumber(rec.message_limit),
          session |-> JsonObject(
            [ tokens |-> JsonNumber(rec.session.tokens),
              tokens_pct |-> JsonNumber(rec.session.tokens_pct),
              cost |-> JsonNumber(rec.session.cost),
              cost_pct |-> JsonNumber(rec.session.cost_pct),
              messages |-> JsonNumber(rec.session.messages),
              messages_pct |-> JsonNumber(rec.session.messages_pct),
              reset_time |-> JsonString(rec.session.reset_time),
              is_active |-> JsonBool(rec.session.is_active) ]),
          totals |-> JsonObject(
            [ entries |-> JsonNumber(rec.totals.entries),
              blocks |-> JsonNumber(rec.totals.blocks),
              total_tokens |-> JsonNumber(rec.totals.total_tokens),
              total_cost |-> JsonNumber(rec.totals.total_cost) ]) ])

\* The Python value that json.load makes of a JSON value.
RECURSIVE json_decode(_)
json_decode(j) ==
    IF j.json = "object"
    THEN [ k \in DOMAIN j.members |-> json_decode(j.members[k]) ]
    ELSE IF j.json = "number" THEN j.repr
    ELSE IF j.json = "string" THEN j.chars
    ELSE j.json = "true"

\* json.dump(status, f, indent=2) writes the text of the record piece by
\* piece; the pieces reach the file in order, at the latest when it is closed.
json_dump(rec) == [i \in 1..MaxChunks |-> <<json_encode(rec), i>>]

\* json.load(f): the record, when the text is the whole text of one record;
\* otherwise JSONDecodeError (None here).
json_load(text) ==
    IF text # <<>> /\ text = [i \in 1..MaxChunks |-> <<text[1][1], i>>]
    THEN Some(json_decode(text[1][1]))
    ELSE None

\* What the writer's calls of the collaborators answer in this part.
StoreUsage ==
    { Raise("usage source unavailable"),
      [kind |-> "data",
       blocks |-> << [isActive |-> TRUE,
                      tokenCounts |-> Some(TokenCounts(400, 100, 0)),
                      costUSD |-> 1250, sentMessagesCount |-> 10,
                      endTime |-> "2026-11-03T20:00:00"] >>,
       entries_count |-> 3, total_tokens |-> 6000, total_cost |-> 4200] }

\* The directory as a value, and the three file operations of the writer.
Dir == [fs |-> fs, inodes |-> inodes]

\* open(path, "w")
fs_open_w(F, path) ==
    IF F.fs[path] = None
    THEN [fs |-> [F.fs EXCEPT ![path] = Some(Len(F.inodes) + 1)],
          inodes |-> Append(F.inodes, <<>>)]
    ELSE [fs |-> F.fs,
          inodes |-> [F.inodes EXCEPT ![Val(F.fs[path])] = <<>>]]

\* f.write(chunk) on the file opened at path
fs_write(F, path, chunk) ==
    [fs |-> F.fs,
     inodes |-> [F.inodes EXCEPT ![Val(F.fs[path])] = Append(@, chunk)]]

\* src.replace(dst): rename(2); renaming a file to itself changes nothing.
\* The inode that dst named before is unlinked: its content is gone unless a
\* reader still has it open.
fs_replace(F, src, dst) ==
    IF src = dst THEN F
    ELSE LET old == F.fs[dst]
             held == \E r \in Readers : readers[r].fd = old
         IN [fs |-> [F.fs EXCEPT ![dst] = F.fs[src], ![src] = None],
             inodes |-> IF old = None \/ held \/ old = F.fs[src] THEN F.inodes
                        ELSE [F.inodes EXCEPT ![Val(old)] = <<>>]]

\* The record a path holds, when it holds the whole text of one.
FileRecordIn(F, path) ==
    IF F.fs[path] = None THEN None ELSE json_load(F.inodes[Val(F.fs[path])])

FileRecord(path) == FileRecordIn(Dir, path)

\* write_status_file, lines 97-98: generate_status(plan), then mkdir.
WriteStart ==
    /\ writer.pc = "idle"
    /\ clock < MaxWrites
    /\ \E u \in StoreUsage :
         LET tl == [kind |-> "value", value |-> 1000]
             pc == [kind |-> "none"]
         IN /\ usage' = Some(u)
            /\ token_lookup' = Some(tl)
            /\ plan_lookup' = Some(pc)
            /\ status' = Some(generate_status(plan, u, tl, pc, clock + 1))
    /\ clock' = clock + 1
    /\ writer' = [pc |-> "open", written |-> 0, result |-> None]
    /\ UNCHANGED <<plan, fs, inodes, readers>>
    /\ UNCHANGED <<IconVars, SettingsVars>>

\* line 100: open(temp_file, "w")
WriteOpen ==
    /\ writer.pc = "open"
    /\ LET G == fs_open_w(Dir, temp_file) IN
         /\ fs' = G.fs
         /\ inodes' = G.inodes
    /\ writer' = [writer EXCEPT !.pc = "dump"]
    /\ UNCHANGED <<readers>>
    /\ UNCHANGED StatusVars
    /\ UNCHANGED <<IconVars, SettingsVars>>

\* line 101: one more piece of the text reaches the file.
WriteChunk ==
    /\ writer.pc = "dump"
    /\ writer.written < MaxChunks
    /\ LET n == writer.written + 1
           G == fs_write(Dir, temp_file, json_dump(Val(status))[n])
       IN /\ inodes' = G.inodes
          /\ writer' = [writer EXCEPT !.written = n,
                            !.pc = IF n = MaxChunks THEN "replace" ELSE "dump"]
    /\ UNCHANGED <<fs, readers>>
    /\ UNCHANGED StatusVars
    /\ UNCHANGED <<IconVars, SettingsVars>>

\* lines 102-103: temp_file.replace(STATUS_FILE); return True.  Every call of
\* read_status_file under way may from now on see the new record.
WriteReplace ==
    /\ writer.pc = "replace"
    /\ LET G == fs_replace(Dir, temp_file, STATUS_FILE) IN
         /\ fs' = G.fs
         /\ inodes' = G.inodes
    /\ writer' = [pc |-> "idle", written |-> 0, result |-> Some(TRUE)]
    /\ readers' = [r \in Readers |->
                     IF readers[r].pc \in {"open", "load"}
                     THEN [readers[r] EXCEPT !.may_see = @ \cup {Some(Val(status))}]
                     ELSE readers[r]]
    /\ UNCHANGED StatusVars
    /\ UNCHANGED <<IconVars, SettingsVars>>

\* lines 104-106: a step of the try block raises; return False.
WriteFails ==
    /\ writer.pc \in {"open", "dump", "replace"}
    /\ writer' = [pc |-> "idle", written |-> 0, result |-> Some(FALSE)]
    /\ UNCHANGED <<fs, inodes, readers>>
    /\ UNCHANGED StatusVars
    /\ UNCHANGED <<IconVars, SettingsVars>>

\* The writing process is killed (kill_existing_instances sends SIGTERM to a
\* running tray); what it left in the directory stays.
WriterStops ==
    /\ writer.pc \in {"open", "dump", "replace"}
    /\ writer' = WriterIdle
    /\ UNCHANGED <<fs, inodes, readers>>
    /\ UNCHANGED StatusVars
    /\ UNCHANGED <<IconVars, SettingsVars>>

\* read_status_file without its except clause: the failure leaves the call.
ReadFailureRaised == Some([raised |-> "Error reading status file"])

\* lines 116-118: except Exception: log a warning, return None
OnReadFailure == None

\* read_status_file, lines 111-112: STATUS_FILE.exists()
ReadExists(r) ==
    /\ readers[r].pc \in {"idle", "done"}
    /\ readers' = [readers EXCEPT ![r] =
                     IF fs[STATUS_FILE] = None
                     THEN [pc |-> "done", fd |-> None, may_see |-> {None},
                           saw |-> [outcome |-> "missing"], result |-> None]
                     ELSE [pc |-> "open", fd |-> None,
                           may_see |-> {FileRecord(STATUS_FILE)} \ {None},
                           saw |-> NothingSeen, result |-> None]]
    /\ UNCHANGED <<fs, inodes, writer>>
    /\ UNCHANGED StatusVars
    /\ UNCHANGED <<IconVars, SettingsVars>>

\* line 114: open(STATUS_FILE); a file that is no longer there raises
\* FileNotFoundError inside the try block.
ReadOpen(r) ==
    /\ readers[r].pc = "open"
    /\ readers' = [readers EXCEPT ![r] =
                     IF fs[STATUS_FILE] = None
                     THEN [@ EXCEPT !.pc = "done",
                                    !.saw = [outcome |-> "open failed"],
                                    !.result = OnReadFailure]
                     ELSE [@ EXCEPT !.pc = "load", !.fd = fs[STATUS_FILE]]]
    /\ UNCHANGED <<fs, inodes, writer>>
    /\ UNCHANGED StatusVars
    /\ UNCHANGED <<IconVars, SettingsVars>>

\* lines 115-118: json.load(f) on the open file; a text that does not parse
\* raises JSONDecodeError inside the try block.
ReadLoad(r) ==
    /\ readers[r].pc = "load"
    /\ LET text == inodes[Val(readers[r].fd)] IN
       readers' = [readers EXCEPT ![r] =
                     [@ EXCEPT !.pc = "done",
                               !.saw = [outcome |-> "text", text |-> text],
                               !.result = IF json_load(text) = None
                                          THEN OnReadFailure
                                          ELSE json_load(text)]]
    /\ UNCHANGED <<fs, inodes, writer>>
    /\ UNCHANGED StatusVars
    /\ UNCHANGED <<IconVars, SettingsVars>>

ReadStep == \E r \in Readers : ReadExists(r) \/ ReadOpen(r) \/ ReadLoad(r)

InitStore == StoreIdle /\ StatusIdle /\ IconIdle /\ SettingsIdle
NextStore ==
    \/ WriteStart \/ WriteOpen \/ WriteChunk \/ WriteReplace
    \/ WriteFails \/ WriterStops
    \/ ReadStep
SpecStore == InitStore /\ [][NextStore]_vars

\* C3: a read that has returned gives a complete record that the status file
\* held at some moment of the read (the one it held when the read began, or
\* one that a replace put there since), or null when no status file existed
\* when the read began; the status file never holds a partly written text,
\* and no reader has the temporary file open.
C3_ReadsAreAtomic ==
    /\ \A r \in Readers :
         readers[r].pc = "done" => readers[r].result \in readers[r].may_see
    /\ fs[STATUS_FILE] # None => FileRecord(STATUS_FILE) # None
    /\ \A r \in Readers :
         readers[r].fd # None =>
             /\ readers[r].fd # fs["tray_status.tmp"]
             /\ json_load(inodes[Val(readers[r].fd)]) # None

\* The last write_status_file has returned True and none has begun since.
LastWriteSucceeded == writer.pc = "idle" /\ writer.result = Some(TRUE)

\* The call r of read_status_file has returned, and from its existence check
\* on the status file held nothing but the text it holds now: the call was
\* made after the last replace (every record carries the time of its write).
ReadSince(r) ==
    /\ readers[r].pc = "done"
    /\ fs[STATUS_FILE] # None
    /\ readers[r].may_see = {FileRecord(STATUS_FILE)}

\* C12: when write_status_file has returned True and no write has begun
\* since, two calls of read_status_file made after it have returned the same
\* record, and it is, field for field, the record that the write serialized.
C12_WriteReadRoundTrip ==
    \A r1, r2 \in Readers :
        (r1 # r2 /\ LastWriteSucceeded /\ ReadSince(r1) /\ ReadSince(r2)) =>
            /\ readers[r1].result = readers[r2].result
            /\ readers[r1].result = status
            /\ readers[r1].result # None
            /\ DOMAIN Val(readers[r1].result) = DOMAIN Val(status)
            /\ \A f \in DOMAIN Val(status) :
                   Val(readers[r1].result)[f] = Val(status)[f]

\* Two calls made after the second successful write have both returned its
\* record, which carries session data.
C12_Witness ==
    \E r1, r2 \in Readers :
        /\ r1 # r2
        /\ clock = 2
        /\ LastWriteSucceeded
        /\ ReadSince(r1)
        /\ ReadSince(r2)
        /\ readers[r1].result = status
        /\ ~IsError(Val(status))
        /\ Val(readers[r2].result).session.tokens = 500
        /\ Val(readers[r2].result).session.is_active

\* A read returned the previous record while the writer had stopped between
\* the last piece of the new record and the replace, the temporary file
\* holding the whole new text.
C3_Witness ==
    \E r \in Readers :
        /\ readers[r].pc = "done"
        /\ readers[r].result # None
        /\ writer.pc = "idle"
        /\ writer.result = None
        /\ fs["tray_status.tmp"] # None
        /\ json_load(inodes[Val(fs["tray_status.tmp"])]) # None
        /\ json_load(inodes[Val(fs["tray_status.tmp"])]) # readers[r].result
        /\ readers[r].result = FileRecord(STATUS_FILE)

(***************************************************************************)
(* read_status_file against a directory that other processes change: the   *)
(* status file may be missing, hold a text cut short or no text at all     *)
(* when the tray starts, and may be removed at any moment.                 *)
(***************************************************************************)
\* The record of an earlier run.
OldRecord ==
    generate_status("max20", CHOOSE u \in StoreUsage : u.kind = "data",
                    [kind |-> "value", value |-> 1000], [kind |-> "none"], 0)

\* The texts the status file may hold at the start: a whole record, a record
\* cut short before its last piece, nothing.
StatusTexts ==
    { json_dump(OldRecord), SubSeq(json_dump(OldRecord), 1, MaxChunks - 1), <<>> }

ReadStart ==
    /\ \/ /\ fs = [p \in Paths |-> None]
          /\ inodes = <<>>
       \/ \E t \in StatusTexts :
          /\ fs = [p \in Paths |-> IF p = STATUS_FILE THEN Some(1) ELSE None]
          /\ inodes = <<t>>
    /\ writer = WriterIdle
    /\ readers = [r \in Readers |-> ReaderIdle]

\* Another process unlinks the status file (between lines 111 and 114 of a
\* read, or at any other moment).
StatusFileRemoved ==
    /\ fs[STATUS_FILE] # None
    /\ fs' = [fs EXCEPT ![STATUS_FILE] = None]
    /\ inodes' = IF \E r \in Readers : readers[r].fd = fs[STATUS_FILE]
                 THEN inodes
                 ELSE [inodes EXCEPT ![Val(fs[STATUS_FILE])] = <<>>]
    /\ UNCHANGED <<writer, readers>>
    /\ UNCHANGED StatusVars
    /\ UNCHANGED <<IconVars, SettingsVars>>

InitRead == ReadStart /\ StatusIdle /\ IconIdle /\ SettingsIdle
NextRead == ReadStep \/ StatusFileRemoved
SpecRead == InitRead /\ [][NextRead]_vars

Keys ==
    {"refresh_rate", "plan", "custom_limit_tokens", "warning_threshold",
     "critical_threshold", "autostart", "show_notifications",
     "notification_threshold"}

\* TraySettings(): every field at its default.
DefaultSettings ==
    [ refresh_rate |-> 60,
      plan |-> "custom",
      custom_limit_tokens |-> None,
      warning_threshold |-> 70,
      critical_threshold |-> 90,
      autostart |-> FALSE,
      show_notifications |-> TRUE,
      notification_threshold |-> 90 ]

\* data.get(key, default)
Get(data, key, default) == IF key \in DOMAIN data THEN data[key] ELSE default

\* from_dict giving up the whole file as soon as one key is missing.
FromDictAllOrNothing(data) ==
    IF Keys \subseteq DOMAIN data
    THEN [ k \in Keys |-> data[k] ]
    ELSE [ refresh_rate |-> 60, plan |-> "custom", custom_limit_tokens |-> None,
           warning_threshold |-> 70, critical_threshold |-> 90,
           autostart |-> FALSE, show_notifications |-> TRUE,
           notification_threshold |-> 90 ]

from_dict(data) ==
    [ refresh_rate |-> Get(data, "refresh_rate", 60),
      plan |-> Get(data, "plan", "custom"),
      custom_limit_tokens |-> Get(data, "custom_limit_tokens", None),
      warning_threshold |-> Get(data, "warning_threshold", 70),
      critical_threshold |-> Get(data, "critical_threshold", 90),
      autostart |-> Get(data, "autostart", FALSE),
      show_notifications |-> Get(data, "show_notifications", TRUE),
      notification_threshold |-> Get(data, "notification_threshold", 90) ]

\* to_dict, and the timestamp that save adds to it.
to_dict(settings, now) ==
    [ k \in Keys \cup {"timestamp"} |->
        IF k = "timestamp" THEN now ELSE settings[k] ]

\* What the settings file may be: a text that is a JSON object, a text that is
\* JSON but no object (a list, null), a text that is not JSON, or a file that
\* cannot be opened.  No file is None.
ObjectFile(data) == [kind |-> "object", data |-> data]
BadFiles == { [kind |-> "unreadable"], [kind |-> "not json"], [kind |-> "not an object"] }

\* load without its except clause: the failure leaves the call.
LoadFailureRaised == [raised |-> "Failed to load tray settings"]

\* lines 89-92: except Exception: self._settings = TraySettings()
OnLoadFailure == DefaultSettings

\* load, lines 77-92, when nothing is cached: the settings it makes from the
\* file.
LoadFromFile(file) ==
    IF file = None THEN DefaultSettings
    ELSE IF Val(file).kind = "object" THEN from_dict(Val(file).data)
    ELSE OnLoadFailure

\* load, lines 74-75: the cached settings, when there are any.
load(m) == IF _settings[m] # None THEN Val(_settings[m]) ELSE LoadFromFile(settings_file)

\* save, lines 103-120.  The steps of the try block that can raise, in the
\* order of the code: mkdir (line 104), open(temp_file, "w") (line 110),
\* json.dump (line 111), temp_file.replace (line 112).  A call either runs
\* them all (fail = "none") or raises in one of them.
SaveSteps == <<"mkdir", "open", "dump", "replace">>
SaveFailures == {"none"} \cup { SaveSteps[i] : i \in 1..Len(SaveSteps) }

SaveStepNo(step) == CHOOSE i \in 1..Len(SaveSteps) : SaveSteps[i] = step

\* The step is completed by a call that raises in the step fail.
Done(step, fail) == fail = "none" \/ SaveStepNo(step) < SaveStepNo(fail)

\* The temporary file after the call: truncated by open, filled by
\* json.dump (a text cut short when json.dump raises), gone after replace.
SaveTmp(settings, fail) ==
    IF Done("replace", fail) THEN None
    ELSE IF Done("dump", fail) THEN Some(ObjectFile(to_dict(settings, clock)))
    ELSE IF Done("open", fail) THEN Some([kind |-> "not json"])
    ELSE settings_tmp

\* The settings file after the call: replace (line 112) is the one step that
\* touches it.
SaveFile(settings, fail) ==
    IF Done("replace", fail) THEN Some(ObjectFile(to_dict(settings, clock)))
    ELSE settings_file

\* The cache assigned as soon as the text is written.
SaveCacheBeforeReplace(m, settings, fail, cache) ==
    IF Done("dump", fail) THEN [cache EXCEPT ![m] = Some(settings)] ELSE cache

\* line 114, after the replace: self._settings = settings
SaveCache(m, settings, fail, cache) ==
    IF Done("replace", fail) THEN [cache EXCEPT ![m] = Some(settings)] ELSE cache

\* lines 116 and 118-120: True, and False from the except clause.
SaveResult(fail) == fail = "none"

(***************************************************************************)
(* settings_dialog.py: SettingsDialog._on_accept                           *)
(***************************************************************************)
\* What the user may leave in the widgets when pressing OK: the refresh spin
\* box (range 10..300), the plan combo box, and the warning and critical spin
\* boxes (range 10..100 each): an ordered pair of thresholds, an equal pair,
\* and an inverted pair with the warning box at its maximum.
DialogInputs ==
    { [refresh |-> 20, plan_data |-> "pro", warning |-> 50, critical |-> 100],
      [refresh |-> 20, plan_data |-> "custom", warning |-> 50, critical |-> 50],
      [refresh |-> 20, plan_data |-> "custom", warning |-> 100, critical |-> 50] }

Min(a, b) == IF a < b THEN a ELSE b

\* QSpinBox.setValue on a 10..100 box
SetPercentSpin(v) == IF v < 10 THEN 10 ELSE Min(100, v)

\* lines 196-202: the critical spin box after the validation.
ValidatedCritical(warning, critical) ==
    IF critical <= warning THEN SetPercentSpin(Min(100, warning + 5)) ELSE critical

\* lines 204-219: the TraySettings that settings_changed emits.
on_accept(refresh, plan_data, custom_limit, warning, critical, notif) ==
    [ refresh_rate |-> refresh,
      plan |-> plan_data,
      custom_limit_tokens |-> IF plan_data = "custom" THEN Some(custom_limit) ELSE None,
      warning_threshold |-> warning,
      critical_threshold |-> ValidatedCritical(warning, critical),
      autostart |-> FALSE,
      show_notifications |-> TRUE,
      notification_threshold |-> notif ]

(***************************************************************************)
(* __main__.py: main, and app.py: TrayApplication                          *)
(***************************************************************************)
\* update_thresholds leaving the icon manager as it was.
ThresholdsKept(w, c) ==
    [warning_threshold |-> warning_threshold, critical_threshold |-> critical_threshold]

\* icons.py, update_thresholds with both arguments given: the thresholds of
\* the icon manager after the call.
update_thresholds(w, c) == [warning_threshold |-> w, critical_threshold |-> c]

\* QTimer.start(msec)
QTimer_start(t, msec) ==
    [active |-> TRUE, interval |-> msec, remaining |-> msec, waited |-> 0, cut |-> 0]

\* stop() leaving the timer as it is.
QTimerStopIgnored(t) == t

\* QTimer.stop(): the timer is no longer active.
QTimer_stop(t) == [t EXCEPT !.active = FALSE]

\* setInterval changing the interval of a running timer without arming it
\* again: the timeout that was due stays due.
QTimerKeepsDeadline(t, msec) ==
    [t EXCEPT !.interval = msec, !.waited = 0, !.cut = t.waited]

\* QTimer.setInterval(msec): a running timer is stopped and started again
\* with the new interval.
QTimer_setInterval(t, msec) ==
    IF t.active
    THEN [active |-> TRUE, interval |-> msec, remaining |-> msec, waited |-> 0,
          cut |-> t.waited]
    ELSE [t EXCEPT !.interval = msec]

\* _update_from_status, lines 110-122: the tooltip made from a record.
UsageTooltip(rec) ==
    [ kind |-> "usage", tokens |-> rec.session.tokens, limit |-> rec.token_limit,
      tokens_pct |-> rec.session.tokens_pct, cost |-> rec.session.cost ]

\* _show_error, lines 127-128
ErrorTooltip(read) ==
    [ kind |-> "error", error |-> IF read # None THEN Val(read).error ELSE "No data" ]

\* stats_window.py: StatsWindow() as constructed, and update_status.  The
\* window shows a plan label and, in its rows and labels, the usage values of
\* the record they were last set from (none before the first).  The label
\* "Plan: <plan>" of a record is kept as the plan itself.
StatsWindow == [visible |-> FALSE, plan_label |-> "Plan: --", shown |-> None]

update_status(win, read) ==
    IF read = None \/ IsError(Val(read))
    THEN [win EXCEPT !.plan_label = "Plan: Error"]
    ELSE [win EXCEPT !.plan_label = Val(read).plan,
                     !.shown = Some([ timestamp |-> Val(read).timestamp,
                                      token_limit |-> Val(read).token_limit,
                                      session |-> Val(read).session ])]

\* _refresh, lines 87-96: the record read is kept in self._status and shown
\* by the icon (classified with the thresholds w and c), by the tooltip, and
\* by the stats window if it is open.
ShowStatus(read, w, c) ==
    /\ _status' = read
    /\ IF read # None /\ ~IsError(Val(read))
       THEN /\ usage_ratio' = Some(Val(read).session.tokens_pct)
            /\ icon_state' = _get_state_for_ratio(Val(read).session.tokens_pct, w, c)
            /\ tooltip' = Some(UsageTooltip(Val(read)))
       ELSE /\ usage_ratio' = usage_ratio
            /\ icon_state' = "error"
            /\ tooltip' = Some(ErrorTooltip(read))
    /\ _stats_window' =
          IF _stats_window # None /\ Val(_stats_window).visible
          THEN Some(update_status(Val(_stats_window), read))
          ELSE _stats_window

\* _refresh, lines 78-96, in the thread of the event loop: write_status_file
\* with the plan p (every step succeeding, or one of them raising before the
\* temporary file is opened), read_status_file, and the icon for the record
\* read, classified with the thresholds w and c.
Refresh(p, w, c) ==
    \E u \in StoreUsage, ok \in BOOLEAN :
        LET tl == [kind |-> "value", value |-> 1000]
            cfg == [kind |-> "none"]
            rec == generate_status(p, u, tl, cfg, clock + 1)
            opened == fs_open_w(Dir, temp_file)
            dumped == [opened EXCEPT !.inodes[Val(opened.fs[temp_file])] = json_dump(rec)]
            G == IF ok THEN fs_replace(dumped, temp_file, STATUS_FILE) ELSE Dir
            read == FileRecordIn(G, STATUS_FILE)
        IN /\ plan' = p
           /\ usage' = Some(u)
           /\ token_lookup' = Some(tl)
           /\ plan_lookup' = Some(cfg)
           /\ status' = Some(rec)
           /\ clock' = clock + 1
           /\ fs' = G.fs
           /\ inodes' = G.inodes
           /\ ShowStatus(read, w, c)
           /\ UNCHANGED <<writer, readers>>

\* main, line 97: settings = settings_manager.load()
MainLoad ==
    /\ main_pc = "start"
    /\ LET s == load("main") IN
         /\ _settings' = [_settings EXCEPT !["main"] = Some(s)]
         /\ last_call' = [op |-> "load", manager |-> "main", value |-> s]
    /\ main_pc' = "loaded"
    /\ UNCHANGED <<settings_file, settings_tmp, args, app_settings, _status, _timer, accepts>>
    /\ UNCHANGED <<tooltip, _stats_window>>
    /\ UNCHANGED <<IconVars, StatusVars, StoreVars>>
    /\ UNCHANGED LoopVars

\* main, lines 100-103.  settings is the object the manager caches: the
\* assignment changes the cached settings whether or not save succeeds.
MainPlanOverride ==
    /\ main_pc = "loaded"
    /\ IF args.plan # None
       THEN \E fail \in SaveFailures :
              LET settings == [Val(_settings["main"]) EXCEPT !.plan = Val(args.plan)]
                  assigned == [_settings EXCEPT !["main"] = Some(settings)]
              IN /\ settings_file' = SaveFile(settings, fail)
                 /\ settings_tmp' = SaveTmp(settings, fail)
                 /\ _settings' = SaveCache("main", settings, fail, assigned)
                 /\ last_call' = [op |-> "save", manager |-> "main",
                                  value |-> settings, ok |-> SaveResult(fail),
                                  file_before |-> settings_file,
                                  cache_before |-> assigned["main"]]
       ELSE UNCHANGED <<settings_file, settings_tmp, _settings, last_call>>
    /\ main_pc' = "plan done"
    /\ UNCHANGED <<args, app_settings, _status, _timer, accepts>>
    /\ UNCHANGED <<tooltip, _stats_window>>
    /\ UNCHANGED <<IconVars, StatusVars, StoreVars>>
    /\ UNCHANGED LoopVars

\* main, lines 105-107; a refresh rate of 0 is not truthy.
MainRefreshOverride ==
    /\ main_pc = "plan done"
    /\ IF args.refresh_rate # None /\ Val(args.refresh_rate) # 0
       THEN \E fail \in SaveFailures :
              LET settings == [Val(_settings["main"]) EXCEPT
                                  !.refresh_rate = Val(args.refresh_rate)]
                  assigned == [_settings EXCEPT !["main"] = Some(settings)]
              IN /\ settings_file' = SaveFile(settings, fail)
                 /\ settings_tmp' = SaveTmp(settings, fail)
                 /\ _settings' = SaveCache("main", settings, fail, assigned)
                 /\ last_call' = [op |-> "save", manager |-> "main",
                                  value |-> settings, ok |-> SaveResult(fail),
                                  file_before |-> settings_file,
                                  cache_before |-> assigned["main"]]
       ELSE UNCHANGED <<settings_file, settings_tmp, _settings, last_call>>
    /\ main_pc' = "overridden"
    /\ UNCHANGED <<args, app_settings, _status, _timer, accepts>>
    /\ UNCHANGED <<tooltip, _stats_window>>
    /\ UNCHANGED <<IconVars, StatusVars, StoreVars>>
    /\ UNCHANGED LoopVars

\* TrayApplication.__init__, lines 26-55: a manager of its own, load, the
\* icon manager with the loaded thresholds, the LOADING icon, the timer.
AppInit ==
    /\ main_pc = "overridden"
    /\ LET s == load("app") IN
         /\ _settings' = [_settings EXCEPT !["app"] = Some(s)]
         /\ last_call' = [op |-> "load", manager |-> "app", value |-> s]
         /\ app_settings' = Some(s)
         /\ warning_threshold' = s.warning_threshold
         /\ critical_threshold' = s.critical_threshold
    /\ icon_state' = "loading"
    /\ usage_ratio' = None
    /\ _status' = None
    /\ tooltip' = Some([kind |-> "loading"])
    /\ _stats_window' = None
    /\ _timer' = QTimer
    /\ main_pc' = "constructed"
    /\ UNCHANGED <<settings_file, settings_tmp, args, accepts>>
    /\ UNCHANGED <<StatusVars, StoreVars>>
    /\ UNCHANGED LoopVars

\* start, lines 71-76
AppStart ==
    /\ main_pc = "constructed"
    /\ Refresh(Val(app_settings).plan, warning_threshold, critical_threshold)
    /\ last_call' = [op |-> "start", at |-> clock + 1, armed |-> _timer.active]
    /\ _timer' = QTimer_start(_timer, Val(app_settings).refresh_rate * 1000)
    /\ main_pc' = "running"
    /\ UNCHANGED <<warning_threshold, critical_threshold>>
    /\ UNCHANGED <<settings_file, settings_tmp, _settings, args, app_settings, accepts>>
    /\ UNCHANGED LoopVars

\* _on_settings_changed, lines 184-197, with the settings the dialog emits:
\* save, update_thresholds, setInterval.  (set_enabled writes the autostart
\* entry, which is no part of this state.)
SettingsChanged(new_settings, fail) ==
    /\ app_settings' = Some(new_settings)
    /\ settings_file' = SaveFile(new_settings, fail)
    /\ settings_tmp' = SaveTmp(new_settings, fail)
    /\ _settings' = SaveCache("app", new_settings, fail, _settings)
    /\ LET t == update_thresholds(new_settings.warning_threshold,
                                   new_settings.critical_threshold)
       IN /\ warning_threshold' = t.warning_threshold
          /\ critical_threshold' = t.critical_threshold
    /\ _timer' = QTimer_setInterval(_timer, new_settings.refresh_rate * 1000)

\* _on_settings_changed, lines 181-200: the above, and the refresh of line
\* 200 with the new plan and the new thresholds.
_on_settings_changed(new_settings, fail) ==
    /\ SettingsChanged(new_settings, fail)
    /\ LET t == update_thresholds(new_settings.warning_threshold,
                                   new_settings.critical_threshold)
       IN Refresh(new_settings.plan, t.warning_threshold, t.critical_threshold)

\* The user fills the dialog in and presses OK: _on_accept emits the new
\* settings and _on_settings_changed runs.
AcceptDialog ==
    /\ main_pc = "running"
    /\ accepts < MaxAccepts
    /\ clock < 1 + MaxRefreshes
    /\ \E d \in DialogInputs, fail \in SaveFailures :
         LET new_settings == on_accept(d.refresh, d.plan_data, 44000,
                                       d.warning, d.critical, 90)
         IN /\ _on_settings_changed(new_settings, fail)
            /\ last_call' = [op |-> "accept", manager |-> "app",
                             value |-> new_settings, ok |-> SaveResult(fail),
                             file_before |-> settings_file,
                             cache_before |-> _settings["app"],
                             warning_spin |-> d.warning,
                             critical_spin |-> d.critical]
    /\ accepts' = accepts + 1
    /\ UNCHANGED <<args, main_pc>>
    /\ UNCHANGED LoopVars

\* The event loop between two events: time passes, in steps of 20 s, and
\* never past a timeout that is due.
TimeStep == 20 * 1000

TimePasses ==
    /\ main_pc = "running"
    /\ _timer.active
    /\ _timer.remaining > 0
    /\ LET d == Min(TimeStep, _timer.remaining) IN
       _timer' = [_timer EXCEPT !.remaining = @ - d, !.waited = @ + d]
    /\ UNCHANGED <<settings_file, settings_tmp, _settings, args, main_pc, last_call,
                   app_settings, _status, accepts, tooltip, _stats_window>>
    /\ UNCHANGED <<IconVars, StatusVars, StoreVars>>
    /\ UNCHANGED LoopVars

\* self._timer.timeout, connected to _refresh at line 55; the timer goes on
\* with the same interval.  A timeout that is due when _quit returns is still
\* delivered in the round of events that _quit ran in, if the timer is active.
TimerTimeout ==
    /\ main_pc \in {"running", "quitting"}
    /\ _timer.active
    /\ _timer.remaining = 0
    /\ clock < 1 + MaxRefreshes
    /\ Refresh(Val(app_settings).plan, warning_threshold, critical_threshold)
    /\ last_call' = [op |-> "tick", at |-> clock + 1, waited |-> _timer.waited,
                     cut |-> _timer.cut, rate |-> Val(app_settings).refresh_rate]
    /\ _timer' = [_timer EXCEPT !.remaining = _timer.interval, !.waited = 0, !.cut = 0]
    /\ UNCHANGED <<warning_threshold, critical_threshold>>
    /\ UNCHANGED <<settings_file, settings_tmp, _settings, args, main_pc, app_settings, accepts>>
    /\ UNCHANGED LoopVars

\* refresh_triggered of the menu (line 67) and a middle click on the icon
\* (lines 160-161): _refresh.
MenuRefresh ==
    /\ main_pc = "running"
    /\ clock < 1 + MaxRefreshes
    /\ Refresh(Val(app_settings).plan, warning_threshold, critical_threshold)
    /\ last_call' = [op |-> "refresh", at |-> clock + 1]
    /\ UNCHANGED <<warning_threshold, critical_threshold>>
    /\ UNCHANGED <<settings_file, settings_tmp, _settings, args, main_pc, app_settings, accepts,
                   _timer>>
    /\ UNCHANGED LoopVars

\* _quit, lines 202-207, on quit_triggered of the menu: the timer is stopped
\* and the event loop told to exit; app.exec() returns when the round of
\* events it is in is done.
Quit ==
    /\ main_pc = "running"
    /\ _timer' = QTimer_stop(_timer)
    /\ main_pc' = "quitting"
    /\ last_call' = [op |-> "quit", at |-> clock, due |-> _timer.remaining = 0]
    /\ UNCHANGED <<settings_file, settings_tmp, _settings, args,
                   app_settings, _status, accepts, tooltip, _stats_window>>
    /\ UNCHANGED <<IconVars, StatusVars, StoreVars>>
    /\ UNCHANGED LoopVars

\* _show_stats, lines 163-170
ShowStats ==
    /\ main_pc = "running"
    /\ LET win == IF _stats_window = None THEN StatsWindow ELSE Val(_stats_window)
       IN _stats_window' = Some([update_status(win, _status) EXCEPT !.visible = TRUE])
    /\ UNCHANGED <<settings_file, settings_tmp, _settings, args, main_pc, last_call,
                   app_settings, _status, _timer, accepts, tooltip>>
    /\ UNCHANGED <<IconVars, StatusVars, StoreVars>>
    /\ UNCHANGED LoopVars

\* The user closes the stats window: isVisible() is false from then on.
CloseStats ==
    /\ main_pc = "running"
    /\ _stats_window # None
    /\ Val(_stats_window).visible
    /\ _stats_window' = Some([Val(_stats_window) EXCEPT !.visible = FALSE])
    /\ UNCHANGED <<settings_file, settings_tmp, _settings, args, main_pc, last_call,
                   app_settings, _status, _timer, accepts, tooltip>>
    /\ UNCHANGED <<IconVars, StatusVars, StoreVars>>
    /\ UNCHANGED LoopVars

\* The settings file before the run: none, one that cannot be used, or an
\* object written by an earlier version, by a user or by an earlier save.
SampleSettings ==
    [ refresh_rate |-> 30, plan |-> "pro", custom_limit_tokens |-> Some(50000),
      warning_threshold |-> 50, critical_threshold |-> 60, autostart |-> TRUE,
      show_notifications |-> FALSE, notification_threshold |-> 80 ]

Restrict(f, D) == [k \in D |-> f[k]]

ObjectFiles ==
    { ObjectFile(Restrict(to_dict(SampleSettings, 0), D)) :
        D \in SUBSET (Keys \cup {"timestamp"}) }

InvertedFile ==
    ObjectFile(to_dict([DefaultSettings EXCEPT !.warning_threshold = 90,
                                               !.critical_threshold = 50], 0))

InitialFiles ==
    {None} \cup { Some(f) : f \in BadFiles }
    \cup { Some(InvertedFile),
           Some(ObjectFile(to_dict(DefaultSettings, 0))),
           Some(ObjectFile(Restrict(to_dict(SampleSettings, 0),
                                    (Keys \cup {"timestamp"}) \ {"notification_threshold"}))),
           Some(ObjectFile(Restrict(to_dict(SampleSettings, 0), {}))) }

\* parse_args: --plan and --refresh-rate, each given or not.
ArgsGiven ==
    [ plan : {None, Some("pro")},
      refresh_rate : {None, Some(5)} ]

SettingsStart(files, arguments) ==
    /\ settings_file \in files
    /\ settings_tmp = None
    /\ _settings = [m \in Managers |-> None]
    /\ args \in arguments
    /\ main_pc = "start"
    /\ last_call = [op |-> "none"]
    /\ app_settings = None
    /\ _status = None
    /\ _timer = QTimer
    /\ accepts = 0
    /\ tooltip = None
    /\ _stats_window = None
    /\ stack = <<>>
    /\ pending = {}

InitSettings ==
    SettingsStart(InitialFiles, ArgsGiven) /\ IconIdle /\ StatusIdle /\ StoreIdle
NextSettings ==
    \/ MainLoad \/ MainPlanOverride \/ MainRefreshOverride
    \/ AppInit \/ AppStart \/ AcceptDialog
SpecSettings == InitSettings /\ [][NextSettings]_vars

\* The tray from main() on, with its event loop: timer, menu, dialog, stats
\* window.
InitApp ==
    SettingsStart({None, Some(ObjectFile(to_dict(SampleSettings, 0)))}, {NoArgs})
    /\ IconIdle /\ StatusIdle /\ StoreIdle
NextApp ==
    \/ MainLoad \/ MainPlanOverride \/ MainRefreshOverride
    \/ AppInit \/ AppStart \/ AcceptDialog
    \/ TimePasses \/ TimerTimeout \/ MenuRefresh
    \/ ShowStats \/ CloseStats \/ Quit
SpecApp == InitApp /\ [][NextApp]_vars

\* The same without the stats window, started without a settings file.
InitTimer ==
    SettingsStart({None}, {NoArgs})
    /\ IconIdle /\ StatusIdle /\ StoreIdle
NextTimer ==
    \/ MainLoad \/ MainPlanOverride \/ MainRefreshOverride
    \/ AppInit \/ AppStart \/ AcceptDialog
    \/ TimePasses \/ TimerTimeout \/ MenuRefresh \/ Quit
SpecTimer == InitTimer /\ [][NextTimer]_vars

(***************************************************************************)
(* app.py in the thread of the event loop, step by step.  The thread is in *)
(* a stack of calls: app.exec() at the bottom, dialog.exec() of            *)
(* _show_settings above it while the settings dialog is open, and the      *)
(* handler that an event loop has called on top.  Events (the timeout of   *)
(* the timer, the triggers of the menu, a click on the icon, the buttons   *)
(* of the dialog) arrive at any moment, also while a handler runs; an      *)
(* event is delivered when the thread is back in an event loop.  A         *)
(* _refresh is followed through the steps of write_status_file.            *)
(***************************************************************************)
MaxDialogs == 1

Events ==
    { "timeout", "refresh_triggered", "MiddleClick", "settings_triggered",
      "accepted", "rejected" }

\* The events connected to _refresh: lines 55, 67 and 160-161.
RefreshEvents == {"timeout", "refresh_triggered", "MiddleClick"}

Top(s) == s[Len(s)]
Pop(s) == SubSeq(s, 1, Len(s) - 1)

ExecFrame == [fn |-> "exec"]
DialogFrame == [fn |-> "dialog.exec"]

\* _refresh at the step pc of write_status_file, with the record it made and
\* the file it has open; after is what the caller does when it returns.
RefreshFrame(rec, after) ==
    [fn |-> "_refresh", pc |-> "open", rec |-> rec, fd |-> None, after |-> after]

Dialogs(s) == Cardinality({ i \in DOMAIN s : s[i] = DialogFrame })

\* Events delivered in the middle of any call.
InAnyCall(s) == s # <<>>

\* The thread delivers events when it is in app.exec() or dialog.exec() and
\* nowhere else: no handler of app.py hands control back to an event loop
\* before it returns, other than _show_settings through dialog.exec().
InEventLoop(s) == s # <<>> /\ Top(s) \in {ExecFrame, DialogFrame}

AppState ==
    <<settings_file, settings_tmp, _settings, args, main_pc,
      app_settings, _timer, accepts>>
Shown == <<_status, tooltip, _stats_window, usage_ratio, icon_state>>

\* __main__.py line 113: app.exec()
AppExec ==
    /\ main_pc = "running"
    /\ stack = <<>>
    /\ stack' = <<ExecFrame>>
    /\ UNCHANGED <<pending, last_call, AppState, Shown>>
    /\ UNCHANGED <<warning_threshold, critical_threshold, StatusVars, StoreVars>>

\* An event arrives.  The timer has to be running for a timeout, and the
\* dialog open for its buttons.
PostEvent ==
    /\ stack # <<>>
    /\ \E e \in Events \ pending :
         /\ e = "timeout" => _timer.active
         /\ e \in {"accepted", "rejected"} => Dialogs(stack) > 0
         /\ pending' = pending \cup {e}
    /\ UNCHANGED <<stack, last_call, AppState, Shown>>
    /\ UNCHANGED <<warning_threshold, critical_threshold, StatusVars, StoreVars>>

\* _refresh, lines 83-84, and write_status_file, line 97: generate_status
\* with the plan p.
StartRefresh(p, after) ==
    \E u \in StoreUsage :
        LET tl == [kind |-> "value", value |-> 1000]
            cfg == [kind |-> "none"]
            rec == generate_status(p, u, tl, cfg, clock + 1)
        IN /\ plan' = p
           /\ usage' = Some(u)
           /\ token_lookup' = Some(tl)
           /\ plan_lookup' = Some(cfg)
           /\ status' = Some(rec)
           /\ clock' = clock + 1
           /\ stack' = Append(stack, RefreshFrame(rec, after))

\* The event loop delivers a timeout, refresh_triggered or a middle click:
\* _refresh is called.
DispatchRefresh ==
    /\ InEventLoop(stack)
    /\ clock < 1 + MaxRefreshes
    /\ \E e \in RefreshEvents \cap pending :
         /\ pending' = pending \ {e}
         /\ last_call' = [op |-> e, at |-> clock + 1]
    /\ StartRefresh(Val(app_settings).plan, "return")
    /\ UNCHANGED <<AppState, Shown>>
    /\ UNCHANGED <<warning_threshold, critical_threshold, StoreVars>>

\* settings_triggered: _show_settings, lines 172-179, as far as dialog.exec().
DispatchSettings ==
    /\ InEventLoop(stack)
    /\ "settings_triggered" \in pending
    /\ Dialogs(stack) < MaxDialogs
    /\ pending' = pending \ {"settings_triggered"}
    /\ stack' = Append(stack, DialogFrame)
    /\ UNCHANGED <<last_call, AppState, Shown>>
    /\ UNCHANGED <<warning_threshold, critical_threshold, StatusVars, StoreVars>>

\* The buttons of a dialog that has closed are gone, and the clicks on them
\* that were not delivered with them.
Closed(events) == events \ {"accepted", "rejected"}

\* Cancel: dialog.exec() returns and so does _show_settings.
DispatchReject ==
    /\ InEventLoop(stack)
    /\ Top(stack) = DialogFrame
    /\ "rejected" \in pending
    /\ pending' = Closed(pending)
    /\ stack' = Pop(stack)
    /\ UNCHANGED <<last_call, AppState, Shown>>
    /\ UNCHANGED <<warning_threshold, critical_threshold, StatusVars, StoreVars>>

\* What the dialog holds in this part when OK is pressed.
LoopInputs ==
    { [refresh |-> 20, plan_data |-> "pro", warning |-> 50, critical |-> 100] }

\* OK: _on_accept emits settings_changed, and _on_settings_changed runs as
\* far as its call of _refresh (line 200); the dialog closes when that has
\* returned.
DispatchAccept ==
    /\ InEventLoop(stack)
    /\ Top(stack) = DialogFrame
    /\ "accepted" \in pending
    /\ accepts < MaxAccepts
    /\ clock < 1 + MaxRefreshes
    /\ pending' = pending \ {"accepted"}
    /\ \E d \in LoopInputs, fail \in {"none", "replace"} :
         LET new_settings == on_accept(d.refresh, d.plan_data, 44000,
                                       d.warning, d.critical, 90)
         IN /\ SettingsChanged(new_settings, fail)
            /\ StartRefresh(new_settings.plan, "accept")
            /\ last_call' = [op |-> "accept", manager |-> "app",
                             value |-> new_settings, ok |-> SaveResult(fail),
                             file_before |-> settings_file,
                             cache_before |-> _settings["app"],
                             warning_spin |-> d.warning,
                             critical_spin |-> d.critical]
    /\ accepts' = accepts + 1
    /\ UNCHANGED <<args, main_pc, Shown, StoreVars>>

InRefresh(pc) == stack # <<>> /\ Top(stack).fn = "_refresh" /\ Top(stack).pc = pc

\* The top call goes on to the step pc.
Goto(pc) == stack' = [stack EXCEPT ![Len(stack)].pc = pc]

\* write_status_file, lines 98-100: mkdir and open(temp_file, "w"), or one of
\* them raises.
RefreshOpen ==
    /\ InRefresh("open")
    /\ \E ok \in BOOLEAN :
         IF ok
         THEN LET G == fs_open_w(Dir, temp_file) IN
                /\ fs' = G.fs
                /\ inodes' = G.inodes
                /\ stack' = [stack EXCEPT ![Len(stack)].pc = "dump",
                                          ![Len(stack)].fd = G.fs[temp_file]]
         ELSE Goto("read") /\ UNCHANGED <<fs, inodes>>
    /\ UNCHANGED <<pending, last_call, AppState, Shown, writer, readers>>
    /\ UNCHANGED <<warning_threshold, critical_threshold, StatusVars>>

\* line 101: json.dump writes the text of the record to the open file.
RefreshDump ==
    /\ InRefresh("dump")
    /\ inodes' = [inodes EXCEPT ![Val(Top(stack).fd)] = json_dump(Top(stack).rec)]
    /\ Goto("replace")
    /\ UNCHANGED <<pending, last_call, AppState, Shown, fs, writer, readers>>
    /\ UNCHANGED <<warning_threshold, critical_threshold, StatusVars>>

\* lines 102-106: temp_file.replace(STATUS_FILE); it raises when there is no
\* temporary file.
RefreshReplace ==
    /\ InRefresh("replace")
    /\ IF fs[temp_file] # None
       THEN LET G == fs_replace(Dir, temp_file, STATUS_FILE) IN
              /\ fs' = G.fs
              /\ inodes' = G.inodes
       ELSE UNCHANGED <<fs, inodes>>
    /\ Goto("read")
    /\ UNCHANGED <<pending, last_call, AppState, Shown, writer, readers>>
    /\ UNCHANGED <<warning_threshold, critical_threshold, StatusVars>>

\* _refresh, lines 87-96: read_status_file, the icon, the tooltip, the stats
\* window; _refresh returns, and the dialog closes if OK had called it.
RefreshRead ==
    /\ InRefresh("read")
    /\ ShowStatus(FileRecord(STATUS_FILE), warning_threshold, critical_threshold)
    /\ IF Top(stack).after = "accept"
       THEN stack' = Pop(Pop(stack)) /\ pending' = Closed(pending)
       ELSE stack' = Pop(stack) /\ UNCHANGED pending
    /\ UNCHANGED <<last_call, AppState>>
    /\ UNCHANGED <<warning_threshold, critical_threshold, StatusVars, StoreVars>>

InitLoop ==
    SettingsStart({None}, {NoArgs})
    /\ IconIdle /\ StatusIdle /\ StoreIdle
NextLoop ==
    \/ MainLoad \/ MainPlanOverride \/ MainRefreshOverride
    \/ AppInit \/ AppStart \/ AppExec
    \/ PostEvent
    \/ DispatchRefresh \/ DispatchSettings \/ DispatchReject \/ DispatchAccept
    \/ RefreshOpen \/ RefreshDump \/ RefreshReplace \/ RefreshRead
SpecLoop == InitLoop /\ [][NextLoop]_vars

\* load applied to every settings file that is a JSON object.
InitFromDict ==
    SettingsStart({ Some(f) : f \in ObjectFiles }, {NoArgs})
    /\ IconIdle /\ StatusIdle /\ StoreIdle
NextFromDict == MainLoad
SpecFromDict == InitFromDict /\ [][NextFromDict]_vars

Saved == last_call.op \in {"save", "accept"} /\ last_call.ok

\* C4: whenever a save has succeeded, the settings file holds a pair with
\* critical_threshold > warning_threshold, whatever it held before the run.
C4_PersistedThresholdsOrdered ==
    Saved =>
        /\ settings_file # None
        /\ Val(settings_file).kind = "object"
        /\ Val(settings_file).data["critical_threshold"]
               > Val(settings_file).data["warning_threshold"]

\* C5: the settings that _on_accept emits have critical_threshold strictly
\* greater than warning_threshold, for every pair left in the spin boxes.
C5_EmittedThresholdsOrdered ==
    last_call.op = "accept" =>
        last_call.value.critical_threshold > last_call.value.warning_threshold

C7_CacheChangesOnlyBySave ==
    [][ \A m \in Managers :
          (_settings[m] # None /\ _settings'[m] # _settings[m]) =>
              /\ last_call'.op \in {"save", "accept"}
              /\ last_call'.manager = m
              /\ last_call'.ok ]_vars

\* C8: loading a JSON object gives, for each known key, the value of the
\* file when the key is present and the default of that key when it is
\* missing; keys that are not settings (timestamp) are ignored.
C8_PerFieldDefaults ==
    (last_call.op = "load" /\ settings_file # None
        /\ Val(settings_file).kind = "object") =>
        LET v == last_call.value
            data == Val(settings_file).data
        IN /\ DOMAIN v = Keys
           /\ \A k \in Keys \cap DOMAIN data : v[k] = data[k]
           /\ "refresh_rate" \notin DOMAIN data => v.refresh_rate = 60
           /\ "plan" \notin DOMAIN data => v.plan = "custom"
           /\ "custom_limit_tokens" \notin DOMAIN data => v.custom_limit_tokens = None
           /\ "warning_threshold" \notin DOMAIN data => v.warning_threshold = 70
           /\ "critical_threshold" \notin DOMAIN data => v.critical_threshold = 90
           /\ "autostart" \notin DOMAIN data => v.autostart = FALSE
           /\ "show_notifications" \notin DOMAIN data => v.show_notifications = TRUE
           /\ "notification_threshold" \notin DOMAIN data =>
                  v.notification_threshold = 90

\* A file with a timestamp and every key but notification_threshold was
\* loaded: notification_threshold is 0.90 and the other fields are the file's.
C8_Witness ==
    /\ last_call.op = "load"
    /\ settings_file # None
    /\ Val(settings_file).kind = "object"
    /\ DOMAIN Val(settings_file).data
           = (Keys \cup {"timestamp"}) \ {"notification_threshold"}
    /\ last_call.value.notification_threshold = 90
    /\ last_call.value.plan = "pro"
    /\ last_call.value.warning_threshold = 50
    /\ last_call.value.refresh_rate = 30

\* C13: a record generated by a refresh while the settings have plan custom
\* and custom_limit_tokens = L has token_limit = L, and its tokens_pct is the
\* clamped percentage of session.tokens against L.
C13_CustomLimitUsed ==
    ( /\ app_settings # None
      /\ Val(app_settings).plan = "custom"
      /\ Val(app_settings).custom_limit_tokens # None
      /\ status # None
      /\ ~IsError(Val(status)) ) =>
        LET L == Val(Val(app_settings).custom_limit_tokens)
            rec == Val(status)
        IN /\ rec.plan = "custom"
           /\ rec.token_limit = L
           /\ rec.session.tokens_pct = Clamp(Pct(rec.session.tokens, L))

\* C15: the refresh_rate that a successful save has put in the settings file,
\* and the one the refresh timer runs with, is within 10..300 seconds.
C15_RefreshRateInRange ==
    /\ Saved => Val(settings_file).data["refresh_rate"] \in 10..300
    /\ _timer.active => \E rate \in 10..300 : _timer.interval = rate * 1000

\* C16: every timeout of the refresh timer comes one interval of the
\* settings in force after the timer was last armed: by start, by the timeout
\* before, or by the setInterval of a settings change, which arms a running
\* timer again.  After a change the next timeout is one new interval after
\* the change, whatever part of the old interval had passed, and so is every
\* later one after the one before it.
C16_TimerRearmedOnChange ==
    /\ last_call.op = "tick" =>
           last_call.waited = Val(app_settings).refresh_rate * 1000
    /\ _timer.active =>
           /\ _timer.interval = Val(app_settings).refresh_rate * 1000
           /\ _timer.remaining + _timer.waited = _timer.interval

\* The refresh rate was changed from 60 s to 20 s when 20 s of the old
\* interval had passed (40 s were left of it); the next timeout came 20 s
\* after the change.
C16_Witness ==
    /\ last_call.op = "tick"
    /\ last_call.cut = 20000
    /\ last_call.waited = 20000
    /\ Val(app_settings).refresh_rate = 20
    /\ accepts = 1

\* C17: once the tray runs, the refresh made last (by start, by the timer,
\* by the menu or a middle click, or by _on_settings_changed itself) was made
\* with the settings in force: generate_status got their plan, and the icon
\* was classified with their thresholds.  A settings change is in force from
\* the step of _on_settings_changed on, so no refresh after it uses the
\* values before.
C17_RefreshUsesNewSettings ==
    main_pc = "running" =>
        LET s == Val(app_settings) IN
        /\ plan = s.plan
        /\ (status # None /\ ~IsError(Val(status))) => Val(status).plan = s.plan
        /\ warning_threshold = s.warning_threshold
        /\ critical_threshold = s.critical_threshold
        /\ (_status # None /\ ~IsError(Val(_status))) =>
               icon_state = _get_state_for_ratio(Val(_status).session.tokens_pct,
                                                 s.warning_threshold,
                                                 s.critical_threshold)

\* The dialog changed plan custom to pro and the thresholds 0.70/0.90 to
\* 0.50/1.00; a later timeout of the timer computed a record for plan pro,
\* and its 50 % were classified WARNING.
C17_Witness ==
    /\ last_call.op = "tick"
    /\ accepts = 1
    /\ plan = "pro"
    /\ status # None /\ ~IsError(Val(status)) /\ Val(status).plan = "pro"
    /\ _status = status
    /\ warning_threshold = 50
    /\ icon_state = "warning"

\* C18: whenever the record of the last refresh is null or carries an error
\* field, the tray shows the ERROR icon and an error tooltip, and the stats
\* window, when visible, shows the error and no usage values of any record.
C18_ErrorShowsNoData ==
    (main_pc = "running" /\ (_status = None \/ IsError(Val(_status)))) =>
        /\ icon_state = "error"
        /\ tooltip # None
        /\ Val(tooltip).kind = "error"
        /\ (_stats_window # None /\ Val(_stats_window).visible) =>
               /\ Val(_stats_window).plan_label = "Plan: Error"
               /\ Val(_stats_window).shown = None

\* C23: save returns a boolean and never raises; a call in which a step
\* raised returns False and leaves the settings file and the cached settings
\* of the manager as they were before the call; a call that returns True has
\* replaced the file by the saved settings and the cache holds them.
C23_SaveFailureChangesNothing ==
    last_call.op \in {"save", "accept"} =>
        /\ last_call.ok \in BOOLEAN
        /\ ~last_call.ok =>
              /\ settings_file = last_call.file_before
              /\ _settings[last_call.manager] = last_call.cache_before
        /\ last_call.ok =>
              /\ settings_file # None
              /\ Val(settings_file).kind = "object"
              /\ Restrict(Val(settings_file).data, Keys) = last_call.value
              /\ _settings[last_call.manager] = Some(last_call.value)
              /\ settings_tmp = None

\* The dialog was accepted with settings that differ from the cached ones,
\* save wrote the whole text and failed in the replace: the temporary file
\* holds the new settings, the settings file and the cache the old ones.
C23_Witness ==
    /\ last_call.op = "accept"
    /\ ~last_call.ok
    /\ settings_tmp # None
    /\ Val(settings_tmp).kind = "object"
    /\ Restrict(Val(settings_tmp).data, Keys) = last_call.value
    /\ settings_file # None
    /\ settings_file = last_call.file_before
    /\ _settings["app"] = last_call.cache_before
    /\ _settings["app"] # Some(last_call.value)

\* C24: once a refresh has completed, self._status is the record that
\* generate_status made during that refresh, and the tooltip of the tray icon
\* is made from it; this also when write_status_file returned False.
C24_DisplayedIsGenerated ==
    main_pc = "running" =>
        /\ _status = status
        /\ tooltip = Some(IF IsError(Val(status))
                          THEN ErrorTooltip(status)
                          ELSE UsageTooltip(Val(status)))

\* The positions of main() before start() has run.
BeforeStart == {"start", "loaded", "plan done", "overridden", "constructed"}

\* C21: no refresh happens and the timer is not armed before start; start
\* makes one refresh, with the timer not yet armed, and arms the timer with
\* refresh_rate seconds; while the tray runs the timer stays armed, and every
\* timeout comes refresh_rate seconds after the timer was last armed and makes
\* one refresh; _quit stops the timer, and no refresh happens after it.
C21_StartRefreshesThenTicks ==
    /\ [](main_pc \in BeforeStart => clock = 0 /\ ~_timer.active)
    /\ [](last_call.op = "start" => last_call.at = 1 /\ ~last_call.armed)
    /\ [](main_pc = "running" => _timer.active)
    /\ [](last_call.op = "tick" => last_call.waited = last_call.rate * 1000)
    /\ [](main_pc = "quitting" => ~_timer.active)
    /\ [][ /\ (main_pc = "constructed" /\ main_pc' = "running") =>
                /\ clock' = clock + 1
                /\ _timer'.active
                /\ _timer'.remaining = Val(app_settings).refresh_rate * 1000
           /\ (last_call'.op = "tick" /\ last_call' # last_call) =>
                /\ main_pc = "running"
                /\ _timer.remaining = 0
                /\ clock' = clock + 1
           /\ main_pc = "quitting" => clock' = clock ]_vars

\* The tray was started and has refreshed again since, and the user quit at
\* a moment when a timeout was due: the timer is stopped with the timeout
\* undelivered.
C21_Witness ==
    /\ main_pc = "quitting"
    /\ last_call.op = "quit"
    /\ last_call.due
    /\ last_call.at >= 2
    /\ ~_timer.active
    /\ _timer.remaining = 0
    /\ _timer.interval = Val(app_settings).refresh_rate * 1000

\* The calls of _refresh that the thread is in.
RefreshCalls == { i \in DOMAIN stack : stack[i].fn = "_refresh" }

\* C22: the thread of the tray is in at most one call of _refresh at a time,
\* whatever events arrive and whether or not the settings dialog is open: no
\* _refresh starts while another is between generate_status and the replace
\* of the status file, so tray_status.tmp has at most one writer.
C22_RefreshesSerialized ==
    /\ Cardinality(RefreshCalls) <= 1
    /\ Cardinality({ i \in RefreshCalls : stack[i].pc \in {"open", "dump", "replace"} }) <= 1

\* The settings dialog is open, a timeout was delivered inside dialog.exec(),
\* and its _refresh has tray_status.tmp open while a click on "Refresh Now",
\* a middle click and the OK button wait to be delivered.
C22_Witness ==
    /\ Len(stack) = 3
    /\ stack[2] = DialogFrame
    /\ InRefresh("dump")
    /\ last_call.op = "timeout"
    /\ {"refresh_triggered", "MiddleClick", "accepted"} \subseteq pending

====
